---- MODULE Spec2Model ----
(***************************************************************************)
(* haproxytool: the two command dispatchers `haproxytool frontend`         *)
(* (src/haproxytool/frontend.py) and `haproxytool haproxy`                 *)
(* (src/haproxytool/haproxy.py).                                           *)
(*                                                                         *)
(* One behaviour is one invocation of one of the tools: docopt has parsed  *)
(* the command line (Init), main() constructs the HAProxy instance, builds *)
(* the command object, dispatches the selected method, and the process     *)
(* ends.  The haproxyadmin library is outside the repository: every call   *)
(* into it is recorded in `calls` together with the result the library     *)
(* gave, and the result is chosen nondeterministically among the results   *)
(* the source handles (a normal return, CommandFailed, ValueError for an   *)
(* unknown frontend name, True/False for setmaxconn(die=False)).           *)
(***************************************************************************)
EXTENDS Integers, Sequences, FiniteSets, TLC

VARIABLES
    tool,        \* "frontend" or "haproxy": which main() runs
    args,        \* docopt's arguments: method flag, NAME, OPTION, VALUE, METRIC
    exist,       \* the frontends HAProxy has (what the library can find)
    pc,          \* position in main(): "main", "hap", "cmd", "run", "exited"
    hap,         \* result of haproxy.HAProxy(...): "none", "ok" or the exception
    dispatched,  \* the method main() called with getattr(cmd, method)(), or "none"
    frontends,   \* FrontendCommand.frontends: the handles, by frontend name
    i,           \* index of the next entry of `frontends` in a for loop
    calls,       \* every call made on a library handle, in order, with its result
    out,         \* everything printed to stdout, in order
    exit         \* [status, msg]: status -1 while running; msg of sys.exit(msg)

vars == <<tool, args, exist, pc, hap, dispatched, frontends, i, calls, out, exit>>

-----------------------------------------------------------------------------
(* Bounds of the model *)

MaxNames == 2       \* at most this many NAME arguments
MaxValLen == 2      \* at most this many characters in VALUE

(* The frontends a run can name; hap.frontends() lists them in this order *)
AllNames == <<"fe1", "fe2">>
Names == {AllNames[k] : k \in 1..Len(AllNames)}

(* The characters VALUE is made of: a sign, two digits, a letter *)
Digits == {"0", "1"}
Chars == Digits \cup {"-", "x"}

None == "None"

-----------------------------------------------------------------------------
(* Program constants *)

(* haproxy.py OPTIONS: option name -> name of the setter method *)
OPTIONS ==
    [o \in {"maxconn", "ratelimitconn", "ratelimitsess", "ratelimitsslsess"} |->
        CASE o = "maxconn" -> "setmaxconn"
          [] o = "ratelimitconn" -> "setratelimitconn"
          [] o = "ratelimitsess" -> "setratelimitsess"
          [] o = "ratelimitsslsess" -> "setratelimitsslsess"]

(* the option `frontend -o` shows, the only one `frontend -w` can change *)
FRONTEND_OPTIONS == {"maxconn"}

(* haproxyadmin's metric name sets (members are representative) *)
FRONTEND_METRICS == <<"req_tot", "scur">>
HAPROXY_METRICS == <<"CurrConns", "MaxConn">>

(* x in seq, for a Python list *)
In(x, seq) == \E k \in 1..Len(seq) : seq[k] = x

(* the exceptions main() catches around haproxy.HAProxy(...) *)
ConstructErrors ==
    {"SocketApplicationError", "SocketConnectionError", "SocketPermissionError",
     "ValueError"}

FrontendMethods ==
    {"list", "status", "requests", "iid", "process", "options", "enable",
     "disable", "shutdown", "write", "metric", "listmetrics"}
HAProxyMethods ==
    {"all", "clear", "maxconn", "errors", "info", "requests", "options",
     "write", "metric", "listmetrics"}

(* the calls that change HAProxy's state *)
FrontendMutators == {"enable", "disable", "shutdown", "setmaxconn"}
Setters == {OPTIONS[o] : o \in DOMAIN OPTIONS}

-----------------------------------------------------------------------------
(* Python's int(str) on the characters above: an optional sign followed by *)
(* one or more digits; anything else raises ValueError.                    *)

DigitVal(c) == IF c = "1" THEN 1 ELSE 0

RECURSIVE DigitsVal(_)
DigitsVal(s) ==
    IF s = <<>> THEN 0
    ELSE 10 * DigitsVal(SubSeq(s, 1, Len(s) - 1)) + DigitVal(s[Len(s)])

IntBody(s) == IF s # <<>> /\ s[1] = "-" THEN Tail(s) ELSE s

int_raises(s) ==
    \/ IntBody(s) = <<>>
    \/ \E k \in 1..Len(IntBody(s)) : IntBody(s)[k] \notin Digits

int(s) ==
    IF s # <<>> /\ s[1] = "-" THEN 0 - DigitsVal(IntBody(s))
    ELSE DigitsVal(IntBody(s))

-----------------------------------------------------------------------------
(* Records of what the program does *)

Call(op, target, key, arg, res) ==
    [op |-> op, target |-> target, key |-> key, arg |-> arg, res |-> res]

Msg(kind, name, opt, val) ==
    [kind |-> kind, name |-> name, opt |-> opt, val |-> val]

Running == [status |-> -1, msg |-> ""]

(* hap.frontends(): every frontend HAProxy has *)
hap_frontends(ex) == SelectSeq(AllNames, LAMBDA n : n \in ex)

(* all sequences over S of length at most n *)
SeqsUpTo(S, n) == UNION {[1..k -> S] : k \in 0..n}

-----------------------------------------------------------------------------
(* docopt(__doc__): the argument sets the usage lines allow *)

FrontendArgs ==
    {[method |-> m, NAME |-> ns, OPTION |-> None, VALUE |-> <<>>, METRIC |-> None] :
        m \in FrontendMethods \ {"write", "metric", "list", "listmetrics"},
        ns \in SeqsUpTo(Names, MaxNames)}
    \cup
    {[method |-> m, NAME |-> <<>>, OPTION |-> None, VALUE |-> <<>>, METRIC |-> None] :
        m \in {"list", "listmetrics"}}
    \cup
    {[method |-> "write", NAME |-> ns, OPTION |-> o, VALUE |-> v, METRIC |-> None] :
        ns \in SeqsUpTo(Names, MaxNames), o \in {"maxconn", "bogus"},
        v \in SeqsUpTo(Chars, MaxValLen)}
    \cup
    {[method |-> "metric", NAME |-> ns, OPTION |-> None, VALUE |-> <<>>, METRIC |-> mt] :
        ns \in SeqsUpTo(Names, MaxNames), mt \in {"req_tot", "bogus"}}

HAProxyArgs ==
    {[method |-> m, NAME |-> <<>>, OPTION |-> None, VALUE |-> <<>>, METRIC |-> None] :
        m \in HAProxyMethods \ {"write", "metric"}}
    \cup
    {[method |-> "write", NAME |-> <<>>, OPTION |-> o, VALUE |-> v, METRIC |-> None] :
        o \in DOMAIN OPTIONS \cup {"bogus"}, v \in SeqsUpTo(Chars, MaxValLen)}
    \cup
    {[method |-> "metric", NAME |-> <<>>, OPTION |-> None, VALUE |-> <<>>, METRIC |-> mt] :
        mt \in {"MaxConn", "bogus"}}

Init ==
    /\ tool \in {"frontend", "haproxy"}
    /\ args \in (IF tool = "frontend" THEN FrontendArgs ELSE HAProxyArgs)
    /\ exist \in (IF tool = "frontend" THEN SUBSET Names ELSE {Names})
    /\ pc = "main"
    /\ hap = "none"
    /\ dispatched = "none"
    /\ frontends = <<>>
    /\ i = 1
    /\ calls = <<>>
    /\ out = <<>>
    /\ exit = Running

-----------------------------------------------------------------------------
(* How the process ends *)

(* sys.exit(msg): the message goes to stderr, the status is 1 *)
sys_exit(msg) ==
    /\ pc' = "exited"
    /\ exit' = [status |-> 1, msg |-> msg]

(* the method returns, main() returns: status 0 *)
main_returns ==
    /\ pc' = "exited"
    /\ exit' = [status |-> 0, msg |-> ""]

-----------------------------------------------------------------------------
(* main(), both tools: hap = haproxy.HAProxy(socket_dir=...) in try/except *)

(* a main() whose except clauses print the error and forget sys.exit(1) *)
construct_failed_no_exit(err) ==
    /\ hap' = err
    /\ out' = Append(out, Msg("error", "", "", 0))
    /\ pc' = "hap"
    /\ exit' = exit

(* the except clauses: print the error, sys.exit(1) *)
construct_failed(err) ==
    /\ hap' = err
    /\ out' = Append(out, Msg("error", "", "", 0))
    /\ pc' = "exited"
    /\ exit' = [status |-> 1, msg |-> ""]

construct_ok ==
    /\ hap' = "ok"
    /\ pc' = "hap"
    /\ UNCHANGED <<out, exit>>

frontend_main ==
    /\ tool = "frontend"
    /\ pc = "main"
    /\ \/ construct_ok
       \/ \E err \in ConstructErrors : construct_failed(err)
    /\ UNCHANGED <<tool, args, exist, dispatched, frontends, i, calls>>

haproxy_main ==
    /\ tool = "haproxy"
    /\ pc = "main"
    /\ \/ construct_ok
       \/ \E err \in ConstructErrors : construct_failed(err)
    /\ UNCHANGED <<tool, args, exist, dispatched, frontends, i, calls>>

-----------------------------------------------------------------------------
(* FrontendCommand.__init__ and build_frontend_list *)

(* the else branch: one hap.frontend(name) per given name, in order; a     *)
(* ValueError prints "<name> was not found" and the loop goes on            *)
RECURSIVE lookup_names(_, _)
lookup_names(names, ex) ==
    IF names = <<>>
    THEN [frontends |-> <<>>, out |-> <<>>, calls |-> <<>>]
    ELSE LET n == Head(names)
             rest == lookup_names(Tail(names), ex)
         IN IF n \in ex
            THEN [frontends |-> <<n>> \o rest.frontends,
                  out |-> rest.out,
                  calls |-> <<Call("frontend", n, "", 0, "ok")>> \o rest.calls]
            ELSE [frontends |-> rest.frontends,
                  out |-> <<Msg("not_found", n, "", 0)>> \o rest.out,
                  calls |-> <<Call("frontend", n, "", 0, "ValueError")>> \o rest.calls]

(* a build_frontend_list that falls back to every frontend when none of    *)
(* the given names was found                                               *)
build_frontend_list_fallback(names, ex) ==
    IF names = <<>> \/ lookup_names(names, ex).frontends = <<>>
    THEN [frontends |-> hap_frontends(ex),
          out |-> lookup_names(names, ex).out,
          calls |-> lookup_names(names, ex).calls
                        \o <<Call("frontends", "", "", 0, "ok")>>]
    ELSE lookup_names(names, ex)

build_frontend_list(names, ex) ==
    IF names = <<>>
    THEN [frontends |-> hap_frontends(ex),
          out |-> <<>>,
          calls |-> <<Call("frontends", "", "", 0, "ok")>>]
    ELSE lookup_names(names, ex)

FrontendCommand_init ==
    /\ tool = "frontend"
    /\ pc = "hap"
    /\ LET built == build_frontend_list(args.NAME, exist)
       IN /\ frontends' = built.frontends
          /\ out' = out \o built.out
          /\ calls' = calls \o built.calls
    /\ pc' = "cmd"
    /\ UNCHANGED <<tool, args, exist, hap, dispatched, i, exit>>

(* HAProxyCommand.__init__ keeps hap and args, nothing else *)
HAProxyCommand_init ==
    /\ tool = "haproxy"
    /\ pc = "hap"
    /\ pc' = "cmd"
    /\ UNCHANGED <<tool, args, exist, hap, dispatched, frontends, i, calls, out, exit>>

(* method = get_arg_option(arguments); getattr(cmd, method)() *)
dispatch ==
    /\ pc = "cmd"
    /\ dispatched' = args.method
    /\ i' = 1
    /\ pc' = "run"
    /\ UNCHANGED <<tool, args, exist, hap, frontends, calls, out, exit>>

InMethod(t, m) == tool = t /\ pc = "run" /\ dispatched = m

-----------------------------------------------------------------------------
(* FrontendCommand: the methods that only read *)

(* for frontend in self.frontends: print(name, frontend.<attr>) *)
show(attr, kind) ==
    /\ calls' = calls \o [k \in 1..Len(frontends) |->
                             Call(attr, frontends[k], "", 0, "ok")]
    /\ out' = out \o [k \in 1..Len(frontends) |-> Msg(kind, frontends[k], "", 0)]
    /\ main_returns
    /\ UNCHANGED <<tool, args, exist, hap, dispatched, frontends, i>>

FrontendCommand_list ==
    /\ InMethod("frontend", "list")
    /\ out' = out \o [k \in 1..Len(frontends) |-> Msg("name", frontends[k], "", 0)]
    /\ main_returns
    /\ UNCHANGED <<tool, args, exist, hap, dispatched, frontends, i, calls>>

FrontendCommand_status == InMethod("frontend", "status") /\ show("status", "status")

FrontendCommand_requests ==
    InMethod("frontend", "requests") /\ show("requests", "requests")

FrontendCommand_iid == InMethod("frontend", "iid") /\ show("iid", "iid")

FrontendCommand_process ==
    InMethod("frontend", "process") /\ show("process_nb", "process")

FrontendCommand_options ==
    InMethod("frontend", "options") /\ show("maxconn", "maxconn")

FrontendCommand_metric ==
    /\ InMethod("frontend", "metric")
    /\ IF ~In(args.METRIC, FRONTEND_METRICS)
       THEN /\ sys_exit("no valid metric")
            /\ UNCHANGED <<calls, out>>
       ELSE /\ calls' = calls \o [k \in 1..Len(frontends) |->
                                     Call("metric", frontends[k], args.METRIC, 0, "ok")]
            /\ out' = out \o [k \in 1..Len(frontends) |->
                                 Msg("metric", frontends[k], args.METRIC, 0)]
            /\ main_returns
    /\ UNCHANGED <<tool, args, exist, hap, dispatched, frontends, i>>

FrontendCommand_listmetrics ==
    /\ InMethod("frontend", "listmetrics")
    /\ out' = out \o [k \in 1..Len(FRONTEND_METRICS) |->
                         Msg("metric name", "", FRONTEND_METRICS[k], 0)]
    /\ main_returns
    /\ UNCHANGED <<tool, args, exist, hap, dispatched, frontends, i, calls>>

-----------------------------------------------------------------------------
(* FrontendCommand: enable, disable, shutdown.  One step is one iteration  *)
(* of the for loop: the call inside try, then the success print, or the    *)
(* failure print of the except clause; after the last entry the method and *)
(* main() return.                                                          *)

(* a loop without the try/except: the first CommandFailed leaves the loop  *)
(* and ends the process with the uncaught exception                        *)
mutate_step_raises(op, done, failed) ==
    IF i > Len(frontends)
    THEN /\ main_returns
         /\ UNCHANGED <<i, calls, out>>
    ELSE \E res \in {"ok", "CommandFailed"} :
            /\ calls' = Append(calls, Call(op, frontends[i], "", 0, res))
            /\ i' = i + 1
            /\ IF res = "ok"
               THEN /\ out' = Append(out, Msg(done, frontends[i], "", 0))
                    /\ UNCHANGED <<pc, exit>>
               ELSE /\ out' = out
                    /\ sys_exit("CommandFailed")

mutate_step(op, done, failed) ==
    IF i > Len(frontends)
    THEN /\ main_returns
         /\ UNCHANGED <<i, calls, out>>
    ELSE /\ \E res \in {"ok", "CommandFailed"} :
              /\ calls' = Append(calls, Call(op, frontends[i], "", 0, res))
              /\ out' = Append(out, Msg(IF res = "ok" THEN done ELSE failed,
                                        frontends[i], "", 0))
         /\ i' = i + 1
         /\ UNCHANGED <<pc, exit>>

FrontendCommand_enable ==
    /\ InMethod("frontend", "enable")
    /\ mutate_step("enable", "enabled", "failed to be enabled")
    /\ UNCHANGED <<tool, args, exist, hap, dispatched, frontends>>

FrontendCommand_disable ==
    /\ InMethod("frontend", "disable")
    /\ mutate_step("disable", "disabled", "failed to be disabled")
    /\ UNCHANGED <<tool, args, exist, hap, dispatched, frontends>>

FrontendCommand_shutdown ==
    /\ InMethod("frontend", "shutdown")
    /\ mutate_step("shutdown", "shutdown", "failed to be shutdown")
    /\ UNCHANGED <<tool, args, exist, hap, dispatched, frontends>>

(* FrontendCommand.write: int(VALUE) first, inside the try; then one       *)
(* setmaxconn(value, die=False) per frontend.  OPTION is only printed.     *)
FrontendCommand_write ==
    /\ InMethod("frontend", "write")
    /\ IF int_raises(args.VALUE)
       THEN /\ sys_exit("You need to pass a number")
            /\ UNCHANGED <<i, calls, out>>
       ELSE IF i > Len(frontends)
       THEN /\ main_returns
            /\ UNCHANGED <<i, calls, out>>
       ELSE /\ \E res \in {"True", "False"} :
                 /\ calls' = Append(calls, Call("setmaxconn", frontends[i], "",
                                                int(args.VALUE), res))
                 /\ out' = Append(out,
                        IF res = "True"
                        THEN Msg("set", frontends[i], args.OPTION, int(args.VALUE))
                        ELSE Msg("failed to set maxconn", frontends[i], "",
                                 int(args.VALUE)))
            /\ i' = i + 1
            /\ UNCHANGED <<pc, exit>>
    /\ UNCHANGED <<tool, args, exist, hap, dispatched, frontends>>

-----------------------------------------------------------------------------
(* HAProxyCommand.  main() wraps the method in try/except CommandFailed:   *)
(* a CommandFailed from the library ends the process with                  *)
(* sys.exit("failed with error: ...").                                     *)

TheHAProxy == "haproxy"

(* one call on hap that may raise CommandFailed, then print on success *)
hap_command(op, arg, msg) ==
    \E res \in {"ok", "CommandFailed"} :
        /\ calls' = Append(calls, Call(op, TheHAProxy, "", arg, res))
        /\ IF res = "ok"
           THEN /\ out' = Append(out, msg)
                /\ main_returns
           ELSE /\ out' = out
                /\ sys_exit("failed with error")

(* one read on hap, printed *)
hap_show(attr, kind) ==
    /\ calls' = Append(calls, Call(attr, TheHAProxy, "", 0, "ok"))
    /\ out' = Append(out, Msg(kind, "", "", 0))
    /\ main_returns

HAProxyCommand_all ==
    /\ InMethod("haproxy", "all")
    /\ hap_command("clearcounters", 1, Msg("OK", "", "", 0))
    /\ UNCHANGED <<tool, args, exist, hap, dispatched, frontends, i>>

HAProxyCommand_clear ==
    /\ InMethod("haproxy", "clear")
    /\ hap_command("clearcounters", 0, Msg("OK", "", "", 0))
    /\ UNCHANGED <<tool, args, exist, hap, dispatched, frontends, i>>

HAProxyCommand_maxconn ==
    /\ InMethod("haproxy", "maxconn")
    /\ hap_show("maxconn", "maxconn")
    /\ UNCHANGED <<tool, args, exist, hap, dispatched, frontends, i>>

HAProxyCommand_errors ==
    /\ InMethod("haproxy", "errors")
    /\ hap_show("errors", "errors")
    /\ UNCHANGED <<tool, args, exist, hap, dispatched, frontends, i>>

HAProxyCommand_info ==
    /\ InMethod("haproxy", "info")
    /\ hap_show("info", "info")
    /\ UNCHANGED <<tool, args, exist, hap, dispatched, frontends, i>>

HAProxyCommand_requests ==
    /\ InMethod("haproxy", "requests")
    /\ hap_show("totalrequests", "totalrequests")
    /\ UNCHANGED <<tool, args, exist, hap, dispatched, frontends, i>>

(* for option in OPTIONS.keys(): print(option, getattr(self.hap, option)) *)
OptionOrder == <<"maxconn", "ratelimitconn", "ratelimitsess", "ratelimitsslsess">>

HAProxyCommand_options ==
    /\ InMethod("haproxy", "options")
    /\ calls' = calls \o [k \in 1..Len(OptionOrder) |->
                             Call(OptionOrder[k], TheHAProxy, "", 0, "ok")]
    /\ out' = out \o [k \in 1..Len(OptionOrder) |->
                         Msg("option", "", OptionOrder[k], 0)]
    /\ main_returns
    /\ UNCHANGED <<tool, args, exist, hap, dispatched, frontends, i>>

(* the two checks of write, in the order the code makes them: the message  *)
(* of the first one that fails, or "" when both pass                       *)
write_rejects(option, value) ==
    IF option \notin DOMAIN OPTIONS THEN "is not a valid option"
    ELSE IF int_raises(value) THEN "invalid input, excepted number"
    ELSE ""

(* a write that prints the success message before it calls the setter *)
write_apply_prints_first(option, value) ==
    \E res \in {"ok", "CommandFailed"} :
        /\ calls' = Append(calls, Call(OPTIONS[option], TheHAProxy, "", int(value), res))
        /\ out' = Append(out, Msg("set", "", option, int(value)))
        /\ IF res = "ok" THEN main_returns ELSE sys_exit("failed with error")

(* call_method(self.hap), then the success print; CommandFailed leaves     *)
(* write before the print and reaches main()'s except clause               *)
write_apply(option, value) ==
    \E res \in {"ok", "CommandFailed"} :
        /\ calls' = Append(calls, Call(OPTIONS[option], TheHAProxy, "", int(value), res))
        /\ IF res = "ok"
           THEN /\ out' = Append(out, Msg("set", "", option, int(value)))
                /\ main_returns
           ELSE /\ out' = out
                /\ sys_exit("failed with error")

HAProxyCommand_write ==
    /\ InMethod("haproxy", "write")
    /\ IF write_rejects(args.OPTION, args.VALUE) # ""
       THEN /\ sys_exit(write_rejects(args.OPTION, args.VALUE))
            /\ UNCHANGED <<calls, out>>
       ELSE write_apply(args.OPTION, args.VALUE)
    /\ UNCHANGED <<tool, args, exist, hap, dispatched, frontends, i>>

HAProxyCommand_metric ==
    /\ InMethod("haproxy", "metric")
    /\ IF ~In(args.METRIC, HAPROXY_METRICS)
       THEN /\ sys_exit("no valid metric")
            /\ UNCHANGED <<calls, out>>
       ELSE /\ calls' = Append(calls, Call("metric", TheHAProxy, args.METRIC, 0, "ok"))
            /\ out' = Append(out, Msg("metric", "", args.METRIC, 0))
            /\ main_returns
    /\ UNCHANGED <<tool, args, exist, hap, dispatched, frontends, i>>

HAProxyCommand_listmetrics ==
    /\ InMethod("haproxy", "listmetrics")
    /\ out' = out \o [k \in 1..Len(HAPROXY_METRICS) |->
                         Msg("metric name", "", HAPROXY_METRICS[k], 0)]
    /\ main_returns
    /\ UNCHANGED <<tool, args, exist, hap, dispatched, frontends, i, calls>>

-----------------------------------------------------------------------------
Next ==
    \/ frontend_main
    \/ haproxy_main
    \/ FrontendCommand_init
    \/ HAProxyCommand_init
    \/ dispatch
    \/ FrontendCommand_list
    \/ FrontendCommand_status
    \/ FrontendCommand_requests
    \/ FrontendCommand_iid
    \/ FrontendCommand_process
    \/ FrontendCommand_options
    \/ FrontendCommand_enable
    \/ FrontendCommand_disable
    \/ FrontendCommand_shutdown
    \/ FrontendCommand_write
    \/ FrontendCommand_metric
    \/ FrontendCommand_listmetrics
    \/ HAProxyCommand_all
    \/ HAProxyCommand_clear
    \/ HAProxyCommand_maxconn
    \/ HAProxyCommand_errors
    \/ HAProxyCommand_info
    \/ HAProxyCommand_requests
    \/ HAProxyCommand_options
    \/ HAProxyCommand_write
    \/ HAProxyCommand_metric
    \/ HAProxyCommand_listmetrics

Spec == Init /\ [][Next]_vars

-----------------------------------------------------------------------------
(* What the properties below speak of *)

Range(seq) == {seq[k] : k \in 1..Len(seq)}

(* the state-changing calls made on frontends, in order *)
MutCalls == SelectSeq(calls, LAMBDA c : c.op \in FrontendMutators)

(* the calls of a setter method (setmaxconn, setratelimit...), on any target *)
SetterCalls == SelectSeq(calls, LAMBDA c : c.op \in Setters)

(* what a method printed: stdout without build_frontend_list's messages *)
Reports == SelectSeq(out, LAMBDA m : m.kind # "not_found")

SetMessages == SelectSeq(out, LAMBDA m : m.kind = "set")

Found(n) == n \in exist

NonNegativeInt(v) == ~int_raises(v) /\ int(v) >= 0

ChangeableOptions == IF tool = "haproxy" THEN DOMAIN OPTIONS ELSE FRONTEND_OPTIONS

KnownMetric ==
    In(args.METRIC, IF tool = "haproxy" THEN HAPROXY_METRICS ELSE FRONTEND_METRICS)

SuccessKind(m) ==
    CASE m = "enable" -> "enabled"
      [] m = "disable" -> "disabled"
      [] m = "shutdown" -> "shutdown"

-----------------------------------------------------------------------------
(* C1: in a write of either tool, a VALUE that is not a non-negative       *)
(* integer never reaches a setter: no setmaxconn / setratelimit... call is *)
(* made.  The code only requires int(VALUE) to succeed, so "-1" goes       *)
(* through.                                                                *)
C1_InvalidValueReachesNoSetter ==
    (args.method = "write" /\ ~NonNegativeInt(args.VALUE)) => SetterCalls = <<>>

(* C2: in a write of either tool, an OPTION outside the tool's changeable  *)
(* options reaches no setter and produces no "set OPTION to VALUE" message.*)
(* frontend's write never looks at OPTION.                                 *)
C2_UnknownOptionRejected ==
    (args.method = "write" /\ args.OPTION \notin ChangeableOptions)
        => (SetterCalls = <<>> /\ SetMessages = <<>>)

(* C3: a metric request with an unknown METRIC makes no call on the        *)
(* library handle at all.  frontend looks the frontends up in __init__,    *)
(* before metric() validates.                                              *)
C3_UnknownMetricNoLibraryCall ==
    (args.method = "metric" /\ ~KnownMetric) => calls = <<>>

(* C4: a frontend enable/disable/shutdown/write on which at least one      *)
(* frontend's command failed does not end with exit status 0.              *)
C4_PartialFailureIsNotSuccess ==
    (/\ tool = "frontend"
     /\ pc = "exited"
     /\ \E k \in 1..Len(MutCalls) : MutCalls[k].res \in {"CommandFailed", "False"})
        => exit.status # 0

(* C5: a frontend invocation in which a given NAME was not found does not  *)
(* end with exit status 0.                                                 *)
C5_NotFoundIsFailure ==
    (/\ tool = "frontend"
     /\ pc = "exited"
     /\ \E k \in 1..Len(calls) : calls[k].op = "frontend" /\ calls[k].res = "ValueError")
        => exit.status # 0

(* C6: when haproxy.HAProxy(...) raised one of the exceptions main()       *)
(* catches, the process has exited with status 1, no method was dispatched *)
(* and no call was made on any handle.                                     *)
C6_ConstructFailureIsFatal ==
    hap \in ConstructErrors =>
        /\ pc = "exited"
        /\ exit.status = 1
        /\ dispatched = "none"
        /\ calls = <<>>
        /\ frontends = <<>>

C6_Witness == tool = "frontend" /\ hap = "ValueError" /\ pc = "exited"

(* C7: during and after frontend enable/disable/shutdown, the frontends    *)
(* attempted so far are exactly the first i-1 entries of the list, each    *)
(* once and in order, whatever the earlier results; each attempt has       *)
(* exactly one report, the success message iff the call did not raise      *)
(* CommandFailed; and the method only returns after the last entry.        *)
C7_EveryEntryAttemptedOnceInOrder ==
    (tool = "frontend" /\ dispatched \in {"enable", "disable", "shutdown"}) =>
        /\ i - 1 <= Len(frontends)
        /\ Len(MutCalls) = i - 1
        /\ Len(Reports) = i - 1
        /\ \A k \in 1..(i - 1) :
              /\ MutCalls[k].op = dispatched
              /\ MutCalls[k].target = frontends[k]
              /\ Reports[k].name = frontends[k]
              /\ (Reports[k].kind = SuccessKind(dispatched)) <=> (MutCalls[k].res = "ok")
        /\ pc = "exited" => (i - 1 = Len(frontends) /\ exit.status = 0)

C7_Witness ==
    /\ tool = "frontend"
    /\ dispatched = "disable"
    /\ pc = "exited"
    /\ Len(MutCalls) = 2
    /\ MutCalls[1].res = "CommandFailed"
    /\ MutCalls[2].res = "ok"

(* C8: in haproxy -w, an unknown OPTION is reported as such even when      *)
(* VALUE is no number too; a success message implies exactly one call, of  *)
(* the setter OPTIONS[OPTION] with int(VALUE), that returned; a setter     *)
(* that raised CommandFailed was called once, the process exited with      *)
(* "failed with error" and status 1, and there is no success message.      *)
C8_HAProxyWriteOrder ==
    (tool = "haproxy" /\ dispatched = "write") =>
        /\ (pc = "exited" /\ args.OPTION \notin DOMAIN OPTIONS) =>
              (exit = [status |-> 1, msg |-> "is not a valid option"] /\ calls = <<>>)
        /\ SetMessages # <<>> =>
              /\ Len(calls) = 1
              /\ calls[1].op = OPTIONS[args.OPTION]
              /\ calls[1].arg = int(args.VALUE)
              /\ calls[1].res = "ok"
              /\ SetMessages = <<Msg("set", "", args.OPTION, int(args.VALUE))>>
        /\ (\E k \in 1..Len(calls) : calls[k].res = "CommandFailed") =>
              /\ Len(calls) = 1
              /\ exit = [status |-> 1, msg |-> "failed with error"]
              /\ SetMessages = <<>>

C8_Witness ==
    /\ tool = "haproxy"
    /\ dispatched = "write"
    /\ pc = "exited"
    /\ Len(calls) = 1
    /\ calls[1].op = "setratelimitsess"
    /\ calls[1].res = "CommandFailed"

(* C9: when at least one NAME was given, the frontend list is the given    *)
(* names that were found, in the order given, and every state-changing     *)
(* call is on a given name that was found; so when no given name was       *)
(* found the list is empty and nothing is changed.                         *)
C9_LookupFailuresNeverWiden ==
    (tool = "frontend" /\ pc \in {"cmd", "run", "exited"} /\ hap = "ok"
        /\ args.NAME # <<>>) =>
        /\ frontends = SelectSeq(args.NAME, Found)
        /\ \A k \in 1..Len(MutCalls) :
              MutCalls[k].target \in Range(args.NAME) \cap exist
        /\ (\A n \in Range(args.NAME) : n \notin exist) =>
              (frontends = <<>> /\ MutCalls = <<>>)

C9_Witness ==
    /\ tool = "frontend"
    /\ dispatched = "shutdown"
    /\ pc = "exited"
    /\ exit.status = 0
    /\ args.NAME # <<>>
    /\ \A n \in Range(args.NAME) : n \notin exist
    /\ exist # {}
    /\ MutCalls = <<>>

(* C10: within one frontend invocation no frontend receives a              *)
(* state-changing call twice.  A NAME given twice is looked up twice and   *)
(* both handles are acted on.                                              *)
C10_NoDuplicateMutation ==
    \A j, k \in 1..Len(MutCalls) :
        j < k => MutCalls[j].target # MutCalls[k].target

====
